---- MODULE Spec2Model ----
(***************************************************************************)
(* Model of the pixel-grid backend (src/backend/server.ts) and of the      *)
(* requests of its frontend (src/frontend/src/App.tsx).                    *)
(*                                                                         *)
(*   GET  /api/colors?mode=..  fans out one upstream lookup per cell,      *)
(*                             joins on all of them (Promise.all), drops   *)
(*                             the failed ones, overlays localPixelCache   *)
(*                             in mode 'locally' and replies.              *)
(*   POST /api/pixel           validates x, y, teamId and writes one entry *)
(*                             of localPixelCache.                         *)
(*                                                                         *)
(* Node runs every handler continuation to its next await without          *)
(* interruption, so each action below is one such run: the dispatch loop   *)
(* of a grid request, the completion of one upstream lookup, the           *)
(* continuation after Promise.all, and the whole POST handler (which       *)
(* contains no await).                                                     *)
(*                                                                         *)
(* The grid side (the literal 15 of the loops and of the coordinate        *)
(* validation) is scaled down to MaxX / MaxY.  Wall-clock measurements     *)
(* (responseTime) and logging are not modelled.                            *)
(***************************************************************************)
EXTENDS Integers, Sequences, FiniteSets, TLC

\* Largest x and y of the grid (15 and 15 in the source), scaled down.
MaxX == 1
MaxY == 1
\* Cap on the number of successful edits followed by the model, and the
\* larger cap of the runs that consist of edits only.
MaxEdits == 2
MaxEditsAlone == 3
\* Number of request slots for GET /api/colors handlers in flight.
NumRequests == 2

(***************************************************************************)
(* JavaScript values that can arrive in a JSON body.  A number is kept as  *)
(* twice its value so that halves (0.5, 1.5, ...) are representable; a     *)
(* string is a numeric string, kept by the number it spells.               *)
(***************************************************************************)
Num(n) == [kind |-> "number", twice |-> 2 * n]
HalfAbove(n) == [kind |-> "number", twice |-> 2 * n + 1]
NumStr(n) == [kind |-> "string", twice |-> 2 * n]
Undefined == [kind |-> "undefined"]

\* ToNumber of a relational comparison: undefined becomes NaN, a numeric
\* string becomes its number.
IsNaN(v) == v.kind = "undefined"

\* v < n and v > n of JavaScript, n an integer literal: false on NaN.
JsLess(v, n) == ~IsNaN(v) /\ v.twice < 2 * n
JsGreater(v, n) == ~IsNaN(v) /\ v.twice > 2 * n

\* a === b: same type and same value.
StrictEquals(a, b) == a = b

\* `${v}`: the text of a template-literal substitution.  A number and the
\* numeric string that spells it give the same text.
TemplateText(v) ==
    IF v.kind = "undefined" THEN [text |-> "undefined"]
    ELSE [text |-> "decimal", twice |-> v.twice]

\* `${x},${y}`
CacheKey(x, y) == <<TemplateText(x), TemplateText(y)>>

(***************************************************************************)
(* Team Registry.                                                          *)
(***************************************************************************)
Rgb(r, g, b) == [Red |-> r, Green |-> g, Blue |-> b]

TEAMS ==
    << [id |-> 0,  name |-> "Team 0",  color |-> Rgb(255, 0, 0)],
       [id |-> 1,  name |-> "Team 1",  color |-> Rgb(0, 255, 0)],
       [id |-> 2,  name |-> "Team 2",  color |-> Rgb(0, 0, 255)],
       [id |-> 3,  name |-> "Team 3",  color |-> Rgb(255, 255, 0)],
       [id |-> 4,  name |-> "Team 4",  color |-> Rgb(255, 0, 255)],
       [id |-> 5,  name |-> "Team 5",  color |-> Rgb(0, 255, 255)],
       [id |-> 6,  name |-> "Team 6",  color |-> Rgb(128, 0, 0)],
       [id |-> 7,  name |-> "Team 7",  color |-> Rgb(0, 128, 0)],
       [id |-> 8,  name |-> "Team 8",  color |-> Rgb(0, 0, 128)],
       [id |-> 9,  name |-> "Team 9",  color |-> Rgb(128, 128, 0)],
       [id |-> 10, name |-> "Team 10", color |-> Rgb(128, 0, 128)],
       [id |-> 11, name |-> "Team 11", color |-> Rgb(0, 128, 128)],
       [id |-> 12, name |-> "Team 12", color |-> Rgb(192, 192, 192)],
       [id |-> 13, name |-> "Team 13", color |-> Rgb(128, 128, 128)],
       [id |-> 14, name |-> "Team 14", color |-> Rgb(255, 128, 0)],
       [id |-> 15, name |-> "Team 15", color |-> Rgb(0, 128, 255)] >>

\* TEAMS.find((t) => t.id === teamId): the first match, or no team.
NoTeam == [found |-> FALSE]

TeamMatches(t, teamId) == StrictEquals(Num(t.id), teamId)

FindTeam(teamId) ==
    LET hits == {i \in 1..Len(TEAMS) : TeamMatches(TEAMS[i], teamId)}
    IN  IF hits = {} THEN NoTeam
        ELSE [found |-> TRUE,
              team |-> TEAMS[CHOOSE i \in hits : \A j \in hits : i <= j]]

(***************************************************************************)
(* State.                                                                  *)
(***************************************************************************)
VARIABLES
    localPixelCache,  \* the Map: a function from the keys present to entries
    reqs,             \* GET /api/colors handlers, one per request slot (with
                      \* history fields: seen, merged, overtaken, joined,
                      \* alongside)
    pixelReply,       \* the reply of the latest POST /api/pixel
    applied,          \* history: the bodies of the successful edits, in order
    client            \* the frontend (src/frontend/src/App.tsx): its React
                      \* state and the position of its requests

serverVars == <<localPixelCache, reqs, pixelReply, applied>>
vars == <<localPixelCache, reqs, pixelReply, applied, client>>

RequestIds == 1..NumRequests

(***************************************************************************)
(* GET /api/colors                                                         *)
(***************************************************************************)
\* API_URLS: the modes that have an upstream base address.
API_URLS == {"online", "locally"}

\* request.query.mode || 'online': an absent or empty mode is falsy.
ResolveMode(q) == IF q = "" THEN "online" ELSE q

\* The content of the two upstream services: what a lookup of cell (x, y)
\* answers when it succeeds.  The ColorResponse shape; the cells of the odd
\* diagonals also carry the team ownership some upstreams report.  A payload
\* is taken to carry no x or y property of its own (the spread would let it
\* replace the cell's).
UpstreamPayload(mode, x, y) ==
    LET shade == IF mode = "online" THEN 10 ELSE 200
    IN  IF (x + y) % 2 = 0
        THEN Rgb(shade, 20 + x, 30 + y)
        ELSE [Red |-> shade, Green |-> 20 + x, Blue |-> 30 + y, teamId |-> Num(0)]

\* The loops `for y ... for x ...`: the i-th promise pushed is the lookup of
\* cell (x, y) with y outermost.
NumCells == (MaxX + 1) * (MaxY + 1)
CellX(i) == (i - 1) % (MaxX + 1)
CellY(i) == (i - 1) \div (MaxX + 1)

\* States of one entry of fetchPromises.
Pending == [st |-> "pending"]
Null == [st |-> "fulfilled", isNull |-> TRUE]
Fulfilled(cell) == [st |-> "fulfilled", isNull |-> FALSE, cell |-> cell]

\* { x, y, ...data }: the properties of data come last and win.
Spread(x, y, data) ==
    [f \in {"x", "y"} \cup DOMAIN data |->
        IF f \in DOMAIN data THEN data[f] ELSE IF f = "x" THEN x ELSE y]

\* Promise.all(fetchPromises) is fulfilled once every promise is (none of
\* them can reject: the lookup catches its own errors).
JoinReady(results) == \A i \in 1..Len(results) : results[i] # Pending

\* (item) => item !== null
KeepsItem(item) == ~item.isNull

\* Variant: a failed lookup is replaced by a default color.
FilterNullDefault(results) ==
    [i \in 1..Len(results) |->
        IF results[i].isNull
        THEN Spread(CellX(i), CellY(i), Rgb(0, 0, 0))
        ELSE results[i].cell]
\* Variant: the kept results come out last-dispatched first.
FilterNullReversed(results) ==
    LET kept == SelectSeq(results, KeepsItem)
    IN  [i \in 1..Len(kept) |-> kept[Len(kept) + 1 - i].cell]
\* results.filter((item) => item !== null), order kept.
FilterNull(results) ==
    LET kept == SelectSeq(results, KeepsItem)
    IN  [i \in 1..Len(kept) |-> kept[i].cell]

\* Variant: the key is built as `${y},${x}`.
OverlayCellSwapped(color, cache) ==
    LET cacheKey == CacheKey(Num(color.y), Num(color.x))
    IN  IF cacheKey \in DOMAIN cache
        THEN [x |-> color.x, y |-> color.y,
              Red |-> cache[cacheKey].Red,
              Green |-> cache[cacheKey].Green,
              Blue |-> cache[cacheKey].Blue,
              teamId |-> cache[cacheKey].teamId]
        ELSE color
\* Variant: the overlay keeps the upstream Green.
OverlayCellBlend(color, cache) ==
    LET cacheKey == CacheKey(Num(color.x), Num(color.y))
    IN  IF cacheKey \in DOMAIN cache
        THEN [x |-> color.x, y |-> color.y,
              Red |-> cache[cacheKey].Red,
              Green |-> color.Green,
              Blue |-> cache[cacheKey].Blue,
              teamId |-> cache[cacheKey].teamId]
        ELSE color
\* The callback of colorData.map in mode 'locally'.
OverlayCell(color, cache) ==
    LET cacheKey == CacheKey(Num(color.x), Num(color.y))
    IN  IF cacheKey \in DOMAIN cache
        THEN [x |-> color.x, y |-> color.y,
              Red |-> cache[cacheKey].Red,
              Green |-> cache[cacheKey].Green,
              Blue |-> cache[cacheKey].Blue,
              teamId |-> cache[cacheKey].teamId]
        ELSE color

\* Variant: the overlay runs in every mode.
OverlayAlways(mode) == TRUE
\* if (mode === 'locally') { colorData = colorData.map(...) }
OverlayApplies(mode) == mode = "locally"

ColorData(results, mode, cache) ==
    LET colorData == FilterNull(results)
    IN  IF OverlayApplies(mode)
        THEN [i \in 1..Len(colorData) |-> OverlayCell(colorData[i], cache)]
        ELSE colorData

Idle == [pc |-> "idle"]

\* History: the lookup i completes while a lookup dispatched before it is
\* still pending.
Overtakes(r, i) == \E j \in 1..(i - 1) : reqs[r].results[j] = Pending

\* History: the other grid requests that are in flight, some of their
\* lookups completed and some not, when request r is answered.
Alongside(r) ==
    {s \in RequestIds \ {r} :
        /\ reqs[s].pc = "waiting"
        /\ \E i \in 1..NumCells : reqs[s].results[i] # Pending
        /\ \E i \in 1..NumCells : reqs[s].results[i] = Pending}

\* History: the number of edits made when the last lookup completes (the
\* lookup i is the last when no other is pending).
JoinedAt(r, i) ==
    IF \A j \in 1..NumCells : j # i => reqs[r].results[j] # Pending
    THEN Len(applied)
    ELSE reqs[r].joined

\* The handler up to `await Promise.all`: every lookup is dispatched.
StartGetGrid(r, q) ==
    /\ reqs[r].pc \in {"idle", "done"}
    /\ reqs' = [reqs EXCEPT ![r] =
                  [pc |-> "waiting",
                   mode |-> ResolveMode(q),
                   results |-> [i \in 1..NumCells |-> Pending],
                   requestCount |-> 0,
                   seen |-> Len(applied),
                   overtaken |-> FALSE,
                   joined |-> 0]]
    /\ UNCHANGED <<localPixelCache, pixelReply, applied>>

\* One lookup gets its response and parses it: requestCount++ and the
\* promise is fulfilled with the cell.
LookupSucceeds(r, i) ==
    /\ reqs[r].pc = "waiting"
    /\ reqs[r].mode \in API_URLS
    /\ reqs[r].results[i] = Pending
    /\ reqs' = [reqs EXCEPT
                  ![r].results[i] =
                      Fulfilled(Spread(CellX(i), CellY(i),
                                       UpstreamPayload(reqs[r].mode, CellX(i), CellY(i)))),
                  ![r].requestCount = @ + 1,
                  ![r].overtaken = @ \/ Overtakes(r, i),
                  ![r].joined = JoinedAt(r, i)]
    /\ UNCHANGED <<localPixelCache, pixelReply, applied>>

\* Variant: without the inner try/catch the rejection reaches Promise.all and
\* the request is answered 500 while other lookups are still pending.
LookupFailsRejects(r, i) ==
    /\ reqs[r].pc = "waiting"
    /\ reqs[r].results[i] = Pending
    /\ reqs' = [reqs EXCEPT ![r] =
                  [pc |-> "done",
                   mode |-> reqs[r].mode,
                   results |-> [reqs[r].results EXCEPT ![i] = Null],
                   requestCount |-> reqs[r].requestCount,
                   seen |-> reqs[r].seen,
                   overtaken |-> reqs[r].overtaken,
                   joined |-> reqs[r].joined,
                   merged |-> Len(applied),
                   alongside |-> Alongside(r),
                   reply |-> [status |-> 500]]]
    /\ UNCHANGED <<localPixelCache, pixelReply, applied>>
\* One lookup throws (fetch or response.json()): the promise is fulfilled
\* with null.
LookupFails(r, i) ==
    /\ reqs[r].pc = "waiting"
    /\ reqs[r].results[i] = Pending
    /\ reqs' = [reqs EXCEPT ![r].results[i] = Null,
                            ![r].overtaken = @ \/ Overtakes(r, i),
                  ![r].joined = JoinedAt(r, i)]
    /\ UNCHANGED <<localPixelCache, pixelReply, applied>>

\* One lookup gets a response whose body is the JSON text null: response.json()
\* gives null, requestCount++ runs, then reading data.Red for the log line
\* throws inside the try and the promise is fulfilled with null.
LookupParsesNull(r, i) ==
    /\ reqs[r].pc = "waiting"
    /\ reqs[r].mode \in API_URLS
    /\ reqs[r].results[i] = Pending
    /\ reqs' = [reqs EXCEPT ![r].results[i] = Null,
                            ![r].requestCount = @ + 1,
                            ![r].overtaken = @ \/ Overtakes(r, i),
                  ![r].joined = JoinedAt(r, i)]
    /\ UNCHANGED <<localPixelCache, pixelReply, applied>>

\* Variant: the overlay works on a copy of the store taken at dispatch.
RECURSIVE StoreAfter(_)
StoreAfter(n) ==
    IF n = 0 THEN <<>>
    ELSE LET copy == StoreAfter(n - 1)
             key == CacheKey(applied[n].x, applied[n].y)
             color == FindTeam(applied[n].teamId).team.color
         IN  [k \in DOMAIN copy \cup {key} |->
                 IF k = key
                 THEN [teamId |-> applied[n].teamId, Red |-> color.Red,
                       Green |-> color.Green, Blue |-> color.Blue]
                 ELSE copy[k]]

RespondFromCopy(r) ==
    /\ reqs[r].pc = "waiting"
    /\ JoinReady(reqs[r].results)
    /\ reqs' = [reqs EXCEPT ![r] =
                  [pc |-> "done",
                   mode |-> reqs[r].mode,
                   results |-> reqs[r].results,
                   requestCount |-> reqs[r].requestCount,
                   seen |-> reqs[r].seen,
                   overtaken |-> reqs[r].overtaken,
                   joined |-> reqs[r].joined,
                   merged |-> Len(applied),
                   alongside |-> Alongside(r),
                   reply |-> [status |-> 200,
                              data |-> ColorData(reqs[r].results, reqs[r].mode,
                                                 StoreAfter(reqs[r].seen)),
                              totalRequests |-> reqs[r].requestCount]]]
    /\ UNCHANGED <<localPixelCache, pixelReply, applied>>
\* Variant: a deadline ends the wait; the lookups still pending count as
\* failed.
RespondOnTimeout(r) ==
    /\ reqs[r].pc = "waiting"
    /\ LET settled == [i \in 1..NumCells |->
                          IF reqs[r].results[i] = Pending THEN Null
                          ELSE reqs[r].results[i]]
       IN  reqs' = [reqs EXCEPT ![r] =
                      [pc |-> "done",
                       mode |-> reqs[r].mode,
                       results |-> reqs[r].results,
                       requestCount |-> reqs[r].requestCount,
                       seen |-> reqs[r].seen,
                       overtaken |-> reqs[r].overtaken,
                       joined |-> reqs[r].joined,
                       merged |-> Len(applied),
                       alongside |-> Alongside(r),
                       reply |-> [status |-> 200,
                                  data |-> ColorData(settled, reqs[r].mode,
                                                     localPixelCache),
                                  totalRequests |-> reqs[r].requestCount]]]
    /\ UNCHANGED <<localPixelCache, pixelReply, applied>>
\* Variant: the merge consumes the entries it has applied.
RespondConsuming(r) ==
    /\ reqs[r].pc = "waiting"
    /\ JoinReady(reqs[r].results)
    /\ reqs' = [reqs EXCEPT ![r] =
                  [pc |-> "done",
                   mode |-> reqs[r].mode,
                   results |-> reqs[r].results,
                   requestCount |-> reqs[r].requestCount,
                   seen |-> reqs[r].seen,
                   overtaken |-> reqs[r].overtaken,
                   joined |-> reqs[r].joined,
                   merged |-> Len(applied),
                   alongside |-> Alongside(r),
                   reply |-> [status |-> 200,
                              data |-> ColorData(reqs[r].results, reqs[r].mode,
                                                 localPixelCache),
                              totalRequests |-> reqs[r].requestCount]]]
    /\ localPixelCache' =
          LET colorData == FilterNull(reqs[r].results)
              used == IF OverlayApplies(reqs[r].mode)
                      THEN {CacheKey(Num(colorData[j].x), Num(colorData[j].y)) :
                                j \in 1..Len(colorData)}
                      ELSE {}
          IN  [k \in DOMAIN localPixelCache \ used |-> localPixelCache[k]]
    /\ UNCHANGED <<pixelReply, applied>>
\* The continuation after the join: filter, overlay, reply.
Respond(r) ==
    /\ reqs[r].pc = "waiting"
    /\ JoinReady(reqs[r].results)
    /\ reqs' = [reqs EXCEPT ![r] =
                  [pc |-> "done",
                   mode |-> reqs[r].mode,
                   results |-> reqs[r].results,
                   requestCount |-> reqs[r].requestCount,
                   seen |-> reqs[r].seen,
                   overtaken |-> reqs[r].overtaken,
                   joined |-> reqs[r].joined,
                   merged |-> Len(applied),
                   alongside |-> Alongside(r),
                   reply |-> [status |-> 200,
                              data |-> ColorData(reqs[r].results, reqs[r].mode,
                                                 localPixelCache),
                              totalRequests |-> reqs[r].requestCount]]]
    /\ UNCHANGED <<localPixelCache, pixelReply, applied>>

(***************************************************************************)
(* POST /api/pixel                                                         *)
(***************************************************************************)
\* Variant: the upper coordinate bounds are off by one.
OutOfRangeLoose(x, y, teamId) ==
    \/ JsLess(x, 0) \/ JsGreater(x, MaxX + 1)
    \/ JsLess(y, 0) \/ JsGreater(y, MaxY + 1)
    \/ JsLess(teamId, 0) \/ JsGreater(teamId, 15)
\* x < 0 || x > 15 || y < 0 || y > 15 || teamId < 0 || teamId > 15
OutOfRange(x, y, teamId) ==
    \/ JsLess(x, 0) \/ JsGreater(x, MaxX)
    \/ JsLess(y, 0) \/ JsGreater(y, MaxY)
    \/ JsLess(teamId, 0) \/ JsGreater(teamId, 15)

\* Variant: Green and Blue are swapped.
EntryOfSwapped(teamId, team) ==
    [teamId |-> teamId,
     Red |-> team.color.Red, Green |-> team.color.Blue, Blue |-> team.color.Green]
\* The entry written by localPixelCache.set.
EntryOf(teamId, team) ==
    [teamId |-> teamId,
     Red |-> team.color.Red, Green |-> team.color.Green, Blue |-> team.color.Blue]

\* Variants: the Map is replaced by one holding only the new entry; setting
\* an entry equal to the present one removes it.
MapSetFresh(cache, key, entry) == [k \in {key} |-> entry]
MapSetToggle(cache, key, entry) ==
    IF key \in DOMAIN cache /\ cache[key] = entry
    THEN [k \in DOMAIN cache \ {key} |-> cache[k]]
    ELSE [k \in DOMAIN cache \cup {key} |-> IF k = key THEN entry ELSE cache[k]]
\* Variant: a key that is present keeps its entry.
MapSetKeep(cache, key, entry) ==
    [k \in DOMAIN cache \cup {key} |-> IF k \in DOMAIN cache THEN cache[k] ELSE entry]
\* localPixelCache.set(key, entry)
MapSet(cache, key, entry) ==
    [k \in DOMAIN cache \cup {key} |-> IF k = key THEN entry ELSE cache[k]]

NoReply == [status |-> 0]

Accepts(x, y, teamId) == ~OutOfRange(x, y, teamId) /\ FindTeam(teamId).found

ApplyEdit(x, y, teamId) ==
    /\ IF OutOfRange(x, y, teamId)
       THEN /\ pixelReply' = [status |-> 400,
                              error |-> "Invalid coordinates or teamId"]
            /\ UNCHANGED <<localPixelCache, applied>>
       ELSE LET found == FindTeam(teamId)
            IN  IF ~found.found
                THEN /\ pixelReply' = [status |-> 400, error |-> "Invalid teamId"]
                     /\ UNCHANGED <<localPixelCache, applied>>
                ELSE /\ localPixelCache' =
                            MapSet(localPixelCache, CacheKey(x, y),
                                   EntryOf(teamId, found.team))
                     /\ pixelReply' = [status |-> 200, success |-> TRUE,
                                       x |-> x, y |-> y, teamId |-> teamId,
                                       color |-> found.team.color]
                     /\ applied' = Append(applied,
                                          [x |-> x, y |-> y, teamId |-> teamId])
    /\ UNCHANGED reqs

(***************************************************************************)
(* GET /api/teams                                                          *)
(***************************************************************************)
\* return { teams: TEAMS }: the handler reads the constant registry and
\* neither reads nor writes any state of the process.
GetTeams == UNCHANGED serverVars

(***************************************************************************)
(* Frontend: fetchColors, handlePixelClick and updatePixel of App.tsx.     *)
(* A request goes through "sent" (on its way to the server), "handling"    *)
(* (the handler runs; fetchColors only, the POST handler being one step)   *)
(* and "replied" (the response is on its way back); the code after the     *)
(* awaits runs when the response resolves.  The two requests travel on     *)
(* their own connections: their responses resolve in either order.  One    *)
(* updatePixel is followed at a time.                                      *)
(***************************************************************************)
\* useState<ApiMode>('locally')
ClientMode == "locally"

NoArgs == [x |-> Undefined, y |-> Undefined, teamId |-> Undefined]

\* colors, loading: the React state.  fetch, update: the position of the
\* request of fetchColors and of updatePixel.  args: the arguments of the
\* latest updatePixel.  History: during (that updatePixel was called while
\* a fetchColors was in flight), ok (its response was ok).
ClientInit ==
    [colors |-> <<>>, loading |-> FALSE, fetch |-> "none", update |-> "none",
     args |-> NoArgs, during |-> FALSE, ok |-> FALSE]

\* fetchColors up to its first await; the button is disabled while loading.
FetchColors ==
    /\ ~client.loading
    /\ client.fetch = "none"
    /\ client' = [client EXCEPT !.loading = TRUE, !.fetch = "sent",
                                !.during = FALSE]
    /\ UNCHANGED serverVars

\* The request of fetchColors reaches the server: the handler dispatches.
FetchArrives ==
    /\ client.fetch = "sent"
    /\ StartGetGrid(1, ClientMode)
    /\ client' = [client EXCEPT !.fetch = "handling"]

\* The handler answers.
FetchAnswered ==
    /\ client.fetch = "handling"
    /\ Respond(1)
    /\ client' = [client EXCEPT !.fetch = "replied"]

\* fetchColors after its awaits: setColors(result.data), setLoading(false).
FetchResolves ==
    /\ client.fetch = "replied"
    /\ client' = [client EXCEPT !.colors = reqs[1].reply.data,
                                !.loading = FALSE, !.fetch = "none"]
    /\ UNCHANGED serverVars

\* color.teamId ?? 0, then (currentTeamId + 1) % 16
NextTeamId(color) ==
    LET currentTeamId == IF "teamId" \in DOMAIN color
                         THEN color.teamId.twice \div 2 ELSE 0
    IN  (currentTeamId + 1) % 16

\* handlePixelClick(color) in mode 'locally', and updatePixel up to its
\* first await.
HandlePixelClick(j) ==
    /\ ClientMode = "locally"
    /\ j \in 1..Len(client.colors)
    /\ client.update = "none"
    /\ Len(applied) < MaxEdits
    /\ client' = [client EXCEPT
                     !.update = "sent",
                     !.args = [x |-> Num(client.colors[j].x),
                               y |-> Num(client.colors[j].y),
                               teamId |-> Num(NextTeamId(client.colors[j]))],
                     !.during = client.fetch # "none",
                     !.ok = FALSE]
    /\ UNCHANGED serverVars

\* The request of updatePixel reaches the server: the POST handler runs.
UpdateArrives ==
    /\ client.update = "sent"
    /\ ApplyEdit(client.args.x, client.args.y, client.args.teamId)
    /\ client' = [client EXCEPT !.update = "replied"]

\* The callback of setColors in updatePixel.
Repaint(prevColors, x, y, teamId, result) ==
    [j \in 1..Len(prevColors) |->
        LET color == prevColors[j]
        IN  IF StrictEquals(Num(color.x), x) /\ StrictEquals(Num(color.y), y)
            THEN [f \in DOMAIN color \cup {"teamId"} |->
                    CASE f = "teamId" -> teamId
                      [] f = "Red" -> result.color.Red
                      [] f = "Green" -> result.color.Green
                      [] f = "Blue" -> result.color.Blue
                      [] OTHER -> color[f]]
            ELSE color]

\* updatePixel after its awaits: a response that is not ok throws and is
\* logged; otherwise the cell is repainted in place.
UpdateResolves ==
    /\ client.update = "replied"
    /\ client' = [client EXCEPT
                     !.colors = IF pixelReply.status = 200
                                THEN Repaint(@, client.args.x, client.args.y,
                                             client.args.teamId, pixelReply)
                                ELSE @,
                     !.ok = pixelReply.status = 200,
                     !.update = "none"]
    /\ UNCHANGED serverVars

(***************************************************************************)
(* Inputs and specifications.                                              *)
(***************************************************************************)
ModeInputs == {"online", "locally", "", "elsewhere"}

\* Bodies of POST /api/pixel: every in-grid coordinate, two of them with two
\* teams, and bodies that fail each test of the validation.
Body(x, y, teamId) == [x |-> x, y |-> y, teamId |-> teamId]

GoodBodies ==
    {Body(Num(x), Num(y), Num(3)) : x \in 0..MaxX, y \in 0..MaxY}
        \cup {Body(Num(0), Num(0), Num(5)), Body(Num(MaxX), Num(MaxY), Num(5))}

OffGridBody == Body(Num(MaxX + 1), Num(MaxY), Num(3))

BadBodies ==
    { Body(Num(-1), Num(0), Num(3)),
      OffGridBody,
      Body(Num(0), Num(-1), Num(5)),
      Body(Num(MaxX), Num(MaxY + 1), Num(5)),
      Body(Num(0), Num(0), Num(-1)),
      Body(Num(0), Num(0), Num(16)),
      Body(Num(MaxX), Num(0), HalfAbove(3)) }

\* The body may be sent: a body that will be accepted only while fewer than
\* cap edits have been.
WithinCap(b, cap) == Accepts(b.x, b.y, b.teamId) => Len(applied) < cap

Init ==
    /\ localPixelCache = <<>>
    /\ reqs = [r \in RequestIds |-> Idle]
    /\ pixelReply = NoReply
    /\ applied = <<>>
    /\ client = ClientInit

\* One grid request at a time, interleaved with edits: the accepted bodies and
\* one rejected body.
Next ==
    \/ \E q \in ModeInputs : StartGetGrid(1, q) /\ UNCHANGED client
    \/ \E i \in 1..NumCells : LookupSucceeds(1, i) /\ UNCHANGED client
    \/ \E i \in 1..NumCells : LookupFails(1, i) /\ UNCHANGED client
    \/ \E i \in 1..NumCells : LookupParsesNull(1, i) /\ UNCHANGED client
    \/ Respond(1) /\ UNCHANGED client
    \/ GetTeams /\ UNCHANGED client
    \/ \E b \in GoodBodies \cup {OffGridBody} :
          /\ WithinCap(b, MaxEdits)
          /\ ApplyEdit(b.x, b.y, b.teamId)
          /\ UNCHANGED client

Spec == Init /\ [][Next]_vars

\* Edits alone, with bodies of any JSON shape.
OddBodies ==
    { Body(HalfAbove(0), Num(0), Num(3)),
      Body(Num(0), HalfAbove(MaxY), Num(3)),
      Body(Undefined, Num(MaxY), Num(5)),
      Body(Num(0), Undefined, Num(5)),
      Body(NumStr(0), NumStr(MaxY), Num(5)),
      Body(NumStr(MaxX + 1), Num(0), Num(3)),
      Body(Num(0), Num(0), Undefined),
      Body(Num(MaxX), Num(0), NumStr(3)) }

NextEdit ==
    \E b \in GoodBodies \cup BadBodies \cup OddBodies :
        /\ WithinCap(b, MaxEdits)
        /\ ApplyEdit(b.x, b.y, b.teamId)
        /\ UNCHANGED client

SpecEdit == Init /\ [][NextEdit]_vars

\* Longer runs of edits: the accepted bodies, one body accepted with a
\* coordinate that is no integer, and one rejected body.
LongRunBodies ==
    GoodBodies \cup {OffGridBody, Body(HalfAbove(0), Num(0), Num(3))}

NextEditLong ==
    \E b \in LongRunBodies :
        /\ WithinCap(b, MaxEditsAlone)
        /\ ApplyEdit(b.x, b.y, b.teamId)
        /\ UNCHANGED client

SpecEditLong == Init /\ [][NextEditLong]_vars

\* Grid requests alone, one after the other.  Once Promise.all is fulfilled
\* the event loop runs the continuation of the handler: Respond is weakly
\* fair.  Nothing makes an upstream answer: the lookups have no fairness.
NextGrid ==
    \/ \E q \in ModeInputs : StartGetGrid(1, q) /\ UNCHANGED client
    \/ \E i \in 1..NumCells : LookupSucceeds(1, i) /\ UNCHANGED client
    \/ \E i \in 1..NumCells : LookupFails(1, i) /\ UNCHANGED client
    \/ \E i \in 1..NumCells : LookupParsesNull(1, i) /\ UNCHANGED client
    \/ Respond(1) /\ UNCHANGED client

SpecGrid ==
    Init /\ [][NextGrid]_vars /\ WF_vars(Respond(1) /\ UNCHANGED client)

\* Grid requests in every slot, their handlers interleaved at the awaits.
NextConcurrent ==
    \E r \in RequestIds :
        \/ \E q \in API_URLS : StartGetGrid(r, q) /\ UNCHANGED client
        \/ \E i \in 1..NumCells : LookupSucceeds(r, i) /\ UNCHANGED client
        \/ \E i \in 1..NumCells : LookupFails(r, i) /\ UNCHANGED client
        \/ \E i \in 1..NumCells : LookupParsesNull(r, i) /\ UNCHANGED client
        \/ Respond(r) /\ UNCHANGED client

SpecConcurrent == Init /\ [][NextConcurrent]_vars

\* The frontend and the backend it talks to.
NextClient ==
    \/ FetchColors
    \/ FetchArrives
    \/ \E i \in 1..NumCells : LookupSucceeds(1, i) /\ UNCHANGED client
    \/ \E i \in 1..NumCells : LookupFails(1, i) /\ UNCHANGED client
    \/ FetchAnswered
    \/ FetchResolves
    \/ \E j \in 1..NumCells : HandlePixelClick(j)
    \/ UpdateArrives
    \/ UpdateResolves

SpecClient == Init /\ [][NextClient]_vars

(***************************************************************************)
(* Vocabulary of the properties.                                           *)
(***************************************************************************)
GridCoords == (0..MaxX) \X (0..MaxY)

\* The position of the lookup of (x, y) in dispatch order.
IndexOf(x, y) == y * (MaxX + 1) + x + 1

\* v is the integer n, as a number or as the string that spells it.
Spells(v, n) == v.kind # "undefined" /\ v.twice = 2 * n

SameCoordinate(a, b) ==
    /\ a.x.kind # "undefined" /\ a.y.kind # "undefined"
    /\ b.x.kind # "undefined" /\ b.y.kind # "undefined"
    /\ a.x.twice = b.x.twice /\ a.y.twice = b.y.twice

\* The successful edits of (x, y) among the first n.
EditsAt(x, y, n) ==
    {i \in 1..n : Spells(applied[i].x, x) /\ Spells(applied[i].y, y)}

LastEditAt(x, y, n) ==
    applied[CHOOSE i \in EditsAt(x, y, n) : \A j \in EditsAt(x, y, n) : j <= i]

IsRegistryTeam(teamId) == \E i \in 1..Len(TEAMS) : Num(TEAMS[i].id) = teamId

RegistryColor(teamId) ==
    TEAMS[CHOOSE i \in 1..Len(TEAMS) : Num(TEAMS[i].id) = teamId].color

CellsOf(data, x, y) == {j \in 1..Len(data) : data[j].x = x /\ data[j].y = y}

\* The cell is exactly the edit: its team and the registry's color for it.
IsEditCell(cell, x, y, teamId) ==
    cell = [x |-> x, y |-> y,
            Red |-> RegistryColor(teamId).Red,
            Green |-> RegistryColor(teamId).Green,
            Blue |-> RegistryColor(teamId).Blue,
            teamId |-> teamId]

\* The cell is exactly what the upstream answered for its coordinate.
IsUpstreamCell(cell, mode) ==
    LET up == UpstreamPayload(mode, cell.x, cell.y)
    IN  /\ DOMAIN cell = {"x", "y"} \cup DOMAIN up
        /\ \A f \in DOMAIN up : cell[f] = up[f]

Done(r) == reqs[r].pc = "done"
Failed(r) == {i \in 1..NumCells : reqs[r].results[i] = Null}
Succeeded(r) ==
    {i \in 1..NumCells : reqs[r].results[i] # Pending /\ reqs[r].results[i] # Null}

AllBodies == GoodBodies \cup BadBodies \cup OddBodies

(***************************************************************************)
(* C1.  As claimed: once an edit of an in-grid (x, y) has succeeded, a     *)
(* later GetGrid("locally") (with no newer edit of (x, y) before its       *)
(* merge) returns a cell for (x, y) with the edit's team and the           *)
(* registry's color for it.  This fails when the lookup of (x, y) fails:   *)
(* the cell is then dropped from the response.                             *)
(***************************************************************************)
C1_AsClaimed ==
    \A r \in RequestIds :
        (Done(r) /\ reqs[r].mode = "locally") =>
            \A c \in GridCoords :
                ( /\ EditsAt(c[1], c[2], reqs[r].seen) # {}
                  /\ EditsAt(c[1], c[2], reqs[r].merged)
                        = EditsAt(c[1], c[2], reqs[r].seen) )
                => \E j \in CellsOf(reqs[r].reply.data, c[1], c[2]) :
                      IsEditCell(reqs[r].reply.data[j], c[1], c[2],
                                 LastEditAt(c[1], c[2], reqs[r].seen).teamId)

\* C1, amended: the same, for the coordinates whose upstream lookup
\* succeeded in that request.
C1_EditShownWhenFetched ==
    \A r \in RequestIds :
        (Done(r) /\ reqs[r].mode = "locally") =>
            \A c \in GridCoords :
                ( /\ EditsAt(c[1], c[2], reqs[r].seen) # {}
                  /\ EditsAt(c[1], c[2], reqs[r].merged)
                        = EditsAt(c[1], c[2], reqs[r].seen)
                  /\ IndexOf(c[1], c[2]) \in Succeeded(r) )
                => \E j \in CellsOf(reqs[r].reply.data, c[1], c[2]) :
                      IsEditCell(reqs[r].reply.data[j], c[1], c[2],
                                 LastEditAt(c[1], c[2], reqs[r].seen).teamId)

C1_Witness ==
    \E r \in RequestIds, c \in GridCoords :
        /\ Done(r) /\ reqs[r].mode = "locally"
        /\ EditsAt(c[1], c[2], reqs[r].seen) # {}
        /\ IndexOf(c[1], c[2]) \in Succeeded(r)
        /\ Failed(r) # {}
        /\ \E j \in CellsOf(reqs[r].reply.data, c[1], c[2]) :
              IsEditCell(reqs[r].reply.data[j], c[1], c[2],
                         LastEditAt(c[1], c[2], reqs[r].seen).teamId)

(***************************************************************************)
(* C2.  Mode isolation: the cells of a GetGrid("online") response are      *)
(* exactly the fetched upstream values, and the response is the one an     *)
(* empty Edit Store would have given.                                      *)
(***************************************************************************)
C2_OnlineIgnoresEdits ==
    \A r \in RequestIds :
        (Done(r) /\ reqs[r].mode = "online") =>
            /\ reqs[r].reply.data = ColorData(reqs[r].results, "online", <<>>)
            /\ \A j \in 1..Len(reqs[r].reply.data) :
                  IsUpstreamCell(reqs[r].reply.data[j], "online")

C2_Witness ==
    \E r \in RequestIds, c \in GridCoords :
        /\ Done(r) /\ reqs[r].mode = "online"
        /\ EditsAt(c[1], c[2], reqs[r].seen) # {}
        /\ IndexOf(c[1], c[2]) \in Succeeded(r)
        /\ CellsOf(reqs[r].reply.data, c[1], c[2]) # {}

\* A body the validation has to reject: x or y a number outside the grid, or
\* a teamId that is no team's identifier.
OutsideGrid(v, max) == v.kind = "number" /\ (v.twice < 0 \/ v.twice > 2 * max)

InvalidBody(b) ==
    \/ OutsideGrid(b.x, MaxX)
    \/ OutsideGrid(b.y, MaxY)
    \/ ~IsRegistryTeam(b.teamId)

(***************************************************************************)
(* C3.  An ApplyEdit whose x or y is a number outside the grid, or whose   *)
(* teamId matches no team, is answered 400 and leaves the Edit Store as it *)
(* was.                                                                    *)
(***************************************************************************)
C3_InvalidEditRejected ==
    [][ \A b \in AllBodies :
            (InvalidBody(b) /\ ApplyEdit(b.x, b.y, b.teamId)) =>
                /\ pixelReply'.status = 400
                /\ localPixelCache' = localPixelCache ]_vars

C3_Witness ==
    /\ pixelReply.status = 400
    /\ DOMAIN localPixelCache # {}

(***************************************************************************)
(* C4.  Whatever lookups fail, GetGrid answers 200 with one cell per       *)
(* lookup that succeeded and no other cell: NumCells - k cells when k      *)
(* lookups failed, none when all failed.                                   *)
(***************************************************************************)
C4_FailedLookupsDropped ==
    \A r \in RequestIds :
        Done(r) =>
            /\ reqs[r].reply.status = 200
            /\ Len(reqs[r].reply.data) = NumCells - Cardinality(Failed(r))
            /\ \A i \in Succeeded(r) :
                  CellsOf(reqs[r].reply.data, reqs[r].results[i].cell.x,
                          reqs[r].results[i].cell.y) # {}

C4_Witness ==
    \E r \in RequestIds :
        /\ Done(r)
        /\ Cardinality(Failed(r)) = NumCells
        /\ reqs[r].reply.status = 200
        /\ reqs[r].reply.data = <<>>

(***************************************************************************)
(* C5.  As claimed: the totalRequests of every GetGrid response is the     *)
(* number of lookups of the request that succeeded, which is the number    *)
(* of cells returned; a failed lookup is not counted.  A lookup answered   *)
(* with the JSON body null is counted and then fails.                      *)
(***************************************************************************)
C5_CountIsSuccesses ==
    \A r \in RequestIds :
        Done(r) =>
            /\ reqs[r].reply.totalRequests = Cardinality(Succeeded(r))
            /\ reqs[r].reply.totalRequests = Len(reqs[r].reply.data)

(***************************************************************************)
(* C6.  A response exists only once every dispatched lookup has completed: *)
(* no lookup of an answered request is still pending, failures included.   *)
(***************************************************************************)
C6_ResponseAfterAllLookups ==
    \A r \in RequestIds :
        Done(r) => \A i \in 1..NumCells : reqs[r].results[i] # Pending

C6_Witness ==
    \E r \in RequestIds :
        /\ Done(r)
        /\ Failed(r) # {}
        /\ Succeeded(r) # {}
        /\ Failed(r) \cup Succeeded(r) = 1..NumCells

(***************************************************************************)
(* C7.  As claimed: in a GetGrid("locally") response a cell whose          *)
(* coordinate has an Edit Store entry is exactly that entry (nothing of    *)
(* the upstream value), and a cell without an entry carries the upstream   *)
(* color and no team identifier.  The last part fails for an upstream      *)
(* that reports a team: the spread keeps the upstream's teamId.            *)
(***************************************************************************)
C7_AsClaimed ==
    \A r \in RequestIds :
        (Done(r) /\ reqs[r].mode = "locally") =>
            \A j \in 1..Len(reqs[r].reply.data) :
                LET cell == reqs[r].reply.data[j]
                    up == UpstreamPayload("locally", cell.x, cell.y)
                IN  IF EditsAt(cell.x, cell.y, reqs[r].merged) # {}
                    THEN IsEditCell(cell, cell.x, cell.y,
                                    LastEditAt(cell.x, cell.y, reqs[r].merged).teamId)
                    ELSE /\ cell.Red = up.Red
                         /\ cell.Green = up.Green
                         /\ cell.Blue = up.Blue
                         /\ "teamId" \notin DOMAIN cell

\* C7, amended: a cell without an entry is the upstream value unchanged,
\* with the team identifier the upstream reported when it reported one.
C7_MergePolicy ==
    \A r \in RequestIds :
        (Done(r) /\ reqs[r].mode = "locally") =>
            \A j \in 1..Len(reqs[r].reply.data) :
                LET cell == reqs[r].reply.data[j]
                IN  IF EditsAt(cell.x, cell.y, reqs[r].merged) # {}
                    THEN IsEditCell(cell, cell.x, cell.y,
                                    LastEditAt(cell.x, cell.y, reqs[r].merged).teamId)
                    ELSE IsUpstreamCell(cell, "locally")

C7_Witness ==
    \E r \in RequestIds :
        /\ Done(r) /\ reqs[r].mode = "locally"
        /\ \E j \in 1..Len(reqs[r].reply.data) :
              LET cell == reqs[r].reply.data[j]
              IN  /\ EditsAt(cell.x, cell.y, reqs[r].merged) # {}
                  /\ "teamId" \in DOMAIN UpstreamPayload("locally", cell.x, cell.y)
                  /\ cell.teamId # UpstreamPayload("locally", cell.x, cell.y).teamId
        /\ \E j \in 1..Len(reqs[r].reply.data) :
              LET cell == reqs[r].reply.data[j]
              IN  /\ EditsAt(cell.x, cell.y, reqs[r].merged) = {}
                  /\ "teamId" \in DOMAIN cell
        /\ \E j \in 1..Len(reqs[r].reply.data) :
              LET cell == reqs[r].reply.data[j]
              IN  /\ EditsAt(cell.x, cell.y, reqs[r].merged) = {}
                  /\ "teamId" \notin DOMAIN cell

\* The first n edits went to pairwise distinct coordinates.
DistinctCoordinates(n) ==
    \A i, j \in 1..n : i # j => ~SameCoordinate(applied[i], applied[j])

\* Some cell of data is exactly the edit, at the edit's coordinate.
ShowsEdit(data, edit) ==
    \E j \in 1..Len(data) :
        /\ Spells(edit.x, data[j].x)
        /\ Spells(edit.y, data[j].y)
        /\ IsEditCell(data[j], data[j].x, data[j].y, edit.teamId)

(***************************************************************************)
(* C8.  No lost updates: when the edits applied so far went to pairwise    *)
(* distinct coordinates, a GetGrid("locally") dispatched after them in     *)
(* which every lookup succeeds shows, for each of them, its own team and   *)
(* the registry's color for it.                                            *)
(***************************************************************************)
C8_NoLostEdits ==
    \A r \in RequestIds :
        ( /\ Done(r) /\ reqs[r].mode = "locally"
          /\ Cardinality(Succeeded(r)) = NumCells
          /\ DistinctCoordinates(reqs[r].merged) )
        => \A i \in 1..reqs[r].seen : ShowsEdit(reqs[r].reply.data, applied[i])

C8_Witness ==
    \E r \in RequestIds :
        /\ Done(r) /\ reqs[r].mode = "locally"
        /\ Cardinality(Succeeded(r)) = NumCells
        /\ reqs[r].seen >= 2
        /\ DistinctCoordinates(reqs[r].merged)
        /\ applied[1].teamId # applied[2].teamId
        /\ \A i \in 1..reqs[r].seen : ShowsEdit(reqs[r].reply.data, applied[i])

\* The color of e is the registry's color for the team of e.
IsWhole(e) ==
    /\ IsRegistryTeam(e.teamId)
    /\ Rgb(e.Red, e.Green, e.Blue) = RegistryColor(e.teamId)

(***************************************************************************)
(* C9.  Every Edit Store entry is whole: its team is a registry team and   *)
(* its color is the registry's color for that team; so is the color of     *)
(* the reply to an edit, and so is every cell a merge took from the store. *)
(***************************************************************************)
C9_EntriesWhole ==
    /\ \A k \in DOMAIN localPixelCache : IsWhole(localPixelCache[k])
    /\ pixelReply.status = 200 =>
          /\ IsRegistryTeam(pixelReply.teamId)
          /\ pixelReply.color = RegistryColor(pixelReply.teamId)
    /\ \A r \in RequestIds :
          (Done(r) /\ reqs[r].mode = "locally") =>
              \A j \in 1..Len(reqs[r].reply.data) :
                  LET cell == reqs[r].reply.data[j]
                  IN  EditsAt(cell.x, cell.y, reqs[r].merged) # {} => IsWhole(cell)

C9_Witness ==
    /\ Cardinality(DOMAIN localPixelCache) >= 2
    /\ \E r \in RequestIds :
          /\ reqs[r].pc = "waiting"
          /\ reqs[r].seen < Len(applied)
          /\ Succeeded(r) # {}

\* The latest POST /api/pixel was this body, and it was accepted.
JustApplied(b) ==
    /\ pixelReply.status = 200
    /\ pixelReply.x = b.x /\ pixelReply.y = b.y /\ pixelReply.teamId = b.teamId

(***************************************************************************)
(* C10.  Idempotence: repeating the edit that has just succeeded leaves    *)
(* the Edit Store as it is and is answered as the first one was.           *)
(***************************************************************************)
C10_EditIdempotent ==
    [][ \A b \in AllBodies :
            (JustApplied(b) /\ ApplyEdit(b.x, b.y, b.teamId)) =>
                /\ localPixelCache' = localPixelCache
                /\ pixelReply' = pixelReply ]_vars

C10_Witness ==
    /\ Len(applied) >= 2
    /\ applied[Len(applied)] = applied[Len(applied) - 1]
    /\ pixelReply.status = 200
    /\ Cardinality(DOMAIN localPixelCache) = 1

\* The key is the text `${x},${y}` of a Cell Coordinate.
IsCoordinateKey(k) == \E c \in GridCoords : k = CacheKey(Num(c[1]), Num(c[2]))

(***************************************************************************)
(* C11.  As claimed: whatever x, y and teamId the ApplyEdit requests       *)
(* carried (missing and non-integer values included), every key of the     *)
(* Edit Store is a Cell Coordinate, a pair of integers of the grid.  The   *)
(* validation only compares with < and >: x = 0.5 and a missing x pass it  *)
(* and the keys "0.5,0" and "undefined,1" are written.                     *)
(***************************************************************************)
C11_KeysAreCoordinates ==
    \A k \in DOMAIN localPixelCache : IsCoordinateKey(k)

\* The dispatch positions of the cells of data, in the order of data.
PositionsOf(data) == [j \in 1..Len(data) |-> IndexOf(data[j].x, data[j].y)]

(***************************************************************************)
(* C12.  The cells of a GetGrid response are the successfully fetched      *)
(* coordinates, each exactly once and no other, in row-major dispatch      *)
(* order (ascending y, then ascending x), whatever the order in which the  *)
(* lookups completed.                                                      *)
(***************************************************************************)
C12_RowMajorOrder ==
    \A r \in RequestIds :
        Done(r) =>
            LET pos == PositionsOf(reqs[r].reply.data)
            IN  /\ \A j, k \in 1..Len(pos) : j < k => pos[j] < pos[k]
                /\ {pos[j] : j \in 1..Len(pos)} = Succeeded(r)
                /\ \A j \in 1..Len(pos) :
                      /\ reqs[r].reply.data[j].x = CellX(pos[j])
                      /\ reqs[r].reply.data[j].y = CellY(pos[j])

C12_Witness ==
    \E r \in RequestIds :
        /\ Done(r)
        /\ reqs[r].overtaken
        /\ Failed(r) # {}
        /\ Cardinality(Succeeded(r)) >= 2
        /\ Len(reqs[r].reply.data) = Cardinality(Succeeded(r))

(***************************************************************************)
(* C13.  A successful ApplyEdit(x, y, teamId) sets the Edit Store entry of *)
(* (x, y) to the team and the registry's color for it, whatever entry was  *)
(* there before, and leaves the entry of every other coordinate as it was. *)
(***************************************************************************)
C13_EditSetsOneEntry ==
    [][ \A b \in LongRunBodies :
            (ApplyEdit(b.x, b.y, b.teamId) /\ pixelReply'.status = 200) =>
                LET key == CacheKey(b.x, b.y)
                IN  /\ DOMAIN localPixelCache' = DOMAIN localPixelCache \cup {key}
                    /\ localPixelCache'[key] =
                          [teamId |-> b.teamId,
                           Red |-> RegistryColor(b.teamId).Red,
                           Green |-> RegistryColor(b.teamId).Green,
                           Blue |-> RegistryColor(b.teamId).Blue]
                    /\ \A k \in DOMAIN localPixelCache \ {key} :
                          localPixelCache'[k] = localPixelCache[k] ]_vars

\* Three edits: two coordinates, the first edited again with another team.
C13_Witness ==
    /\ Len(applied) = 3
    /\ SameCoordinate(applied[1], applied[3])
    /\ ~SameCoordinate(applied[1], applied[2])
    /\ applied[1].teamId # applied[3].teamId
    /\ Cardinality(DOMAIN localPixelCache) = 2
    /\ localPixelCache[CacheKey(applied[3].x, applied[3].y)].teamId = applied[3].teamId
    /\ localPixelCache[CacheKey(applied[2].x, applied[2].y)].teamId = applied[2].teamId

(***************************************************************************)
(* C14.  Edit Store entries are never removed: a coordinate that has an    *)
(* entry has one after every step, be it of a GetGrid, a GetTeams or an    *)
(* ApplyEdit, accepted or rejected.                                        *)
(***************************************************************************)
C14_EntriesNeverRemoved ==
    [][DOMAIN localPixelCache \subseteq DOMAIN localPixelCache']_vars

\* Two entries are there after a second edit, a rejected edit and a whole
\* grid request that began when only one edit had been made.
C14_Witness ==
    /\ Len(applied) = 2
    /\ Cardinality(DOMAIN localPixelCache) = 2
    /\ pixelReply.status = 400
    /\ Done(1) /\ reqs[1].seen = 1 /\ reqs[1].merged = 2

\* A step of a GET /api/colors handler: its dispatch, the completion of one
\* of its lookups, or its continuation after the join.
GetGridStep ==
    \E r \in RequestIds :
        \/ \E q \in ModeInputs : StartGetGrid(r, q)
        \/ \E i \in 1..NumCells :
              LookupSucceeds(r, i) \/ LookupFails(r, i) \/ LookupParsesNull(r, i)
        \/ Respond(r)

(***************************************************************************)
(* C15.  GetGrid, in any mode and with any pattern of lookup successes and *)
(* failures, leaves the Edit Store as it is: no step of the handler        *)
(* creates, changes or removes an entry.                                   *)
(***************************************************************************)
C15_GetGridReadsOnly ==
    [][GetGridStep => localPixelCache' = localPixelCache]_vars

\* A merge has taken a cell from the store, with a failed lookup in the same
\* request, and the store still holds every edit.
C15_Witness ==
    /\ Done(1) /\ reqs[1].mode = "locally"
    /\ Failed(1) # {}
    /\ reqs[1].merged = Len(applied)
    /\ \E j \in 1..Len(reqs[1].reply.data) :
          LET cell == reqs[1].reply.data[j]
          IN  /\ EditsAt(cell.x, cell.y, Len(applied)) # {}
              /\ CacheKey(Num(cell.x), Num(cell.y)) \in DOMAIN localPixelCache
              /\ localPixelCache[CacheKey(Num(cell.x), Num(cell.y))].teamId = cell.teamId
    /\ Cardinality(DOMAIN localPixelCache) = 2

Waiting(r) == reqs[r].pc = "waiting"
AllCompleted(r) == \A i \in 1..NumCells : reqs[r].results[i] # Pending

(***************************************************************************)
(* C16.  A started GetGrid produces its response exactly when all its      *)
(* lookups complete: once every lookup has completed (succeeding or        *)
(* failing) the response eventually follows, and the response is never     *)
(* produced while a lookup is still pending, so a lookup that never        *)
(* completes leaves the request without a response for ever.               *)
(***************************************************************************)
C16_RespondsIffAllComplete ==
    /\ \A r \in RequestIds : (Waiting(r) /\ AllCompleted(r)) ~> Done(r)
    /\ [][ \A r \in RequestIds :
              (Waiting(r) /\ ~AllCompleted(r)) => Waiting(r)' ]_vars

\* Every lookup has completed, some failing, the last dispatched not last,
\* and the response is still to come.
C16_Witness ==
    /\ Waiting(1) /\ AllCompleted(1)
    /\ reqs[1].overtaken
    /\ Failed(1) # {} /\ Succeeded(1) # {}

\* The cell is what the Edit Store, as it was after the first n edits, makes
\* of its coordinate: the last edit of it, or nothing of the store.
ReflectsStoreAfter(cell, n) ==
    IF EditsAt(cell.x, cell.y, n) # {}
    THEN /\ "teamId" \in DOMAIN cell
         /\ cell.teamId = LastEditAt(cell.x, cell.y, n).teamId
         /\ Rgb(cell.Red, cell.Green, cell.Blue)
               = RegistryColor(LastEditAt(cell.x, cell.y, n).teamId)
    ELSE IsUpstreamCell(cell, "locally")

\* No later edit among the first n went to the coordinate of the i-th edit.
NotSuperseded(i, n) ==
    \A j \in (i + 1)..n : ~SameCoordinate(applied[i], applied[j])

\* The i-th edit went to a coordinate whose lookup succeeded in request r and
\* no later edit among the first n went to the same coordinate.
StandsIn(r, i, n) ==
    /\ \E k \in Succeeded(r) :
          Spells(applied[i].x, CellX(k)) /\ Spells(applied[i].y, CellY(k))
    /\ NotSuperseded(i, n)

(***************************************************************************)
(* C17.  As claimed: the overlay of a GetGrid("locally") reads the Edit    *)
(* Store as one snapshot taken after the join: every cell of a response    *)
(* reflects the store as it was at one and the same moment, the merge,     *)
(* which is not before the last lookup completed; and an edit made after   *)
(* the dispatch and before the last lookup completed is shown in that      *)
(* response.  The last part fails when the lookup of the edit's coordinate *)
(* fails: the response then has no cell to show the edit.                  *)
(***************************************************************************)
C17_AsClaimed ==
    \A r \in RequestIds :
        (Done(r) /\ reqs[r].mode = "locally") =>
            /\ reqs[r].seen <= reqs[r].joined
            /\ reqs[r].joined <= reqs[r].merged
            /\ \A j \in 1..Len(reqs[r].reply.data) :
                  ReflectsStoreAfter(reqs[r].reply.data[j], reqs[r].merged)
            /\ \A i \in (reqs[r].seen + 1)..reqs[r].joined :
                  NotSuperseded(i, reqs[r].merged)
                      => ShowsEdit(reqs[r].reply.data, applied[i])

\* C17, amended: the same, the edits shown being those of the coordinates
\* whose lookup succeeded in that request.
C17_OverlaySnapshotAfterJoin ==
    \A r \in RequestIds :
        (Done(r) /\ reqs[r].mode = "locally") =>
            /\ reqs[r].seen <= reqs[r].joined
            /\ reqs[r].joined <= reqs[r].merged
            /\ \A j \in 1..Len(reqs[r].reply.data) :
                  ReflectsStoreAfter(reqs[r].reply.data[j], reqs[r].merged)
            /\ \A i \in (reqs[r].seen + 1)..reqs[r].joined :
                  StandsIn(r, i, reqs[r].merged)
                      => ShowsEdit(reqs[r].reply.data, applied[i])

\* One edit before the dispatch, one between the dispatch and the last
\* lookup, at another coordinate; the response shows both.
C17_Witness ==
    \E r \in RequestIds :
        /\ Done(r) /\ reqs[r].mode = "locally"
        /\ reqs[r].seen = 1 /\ reqs[r].joined = 2 /\ reqs[r].merged = 2
        /\ StandsIn(r, 1, 2) /\ StandsIn(r, 2, 2)
        /\ ShowsEdit(reqs[r].reply.data, applied[1])
        /\ ShowsEdit(reqs[r].reply.data, applied[2])

(***************************************************************************)
(* C18.  As claimed: a GetGrid answered while another GetGrid is in flight *)
(* with its lookups under way has a totalRequests that counts only the     *)
(* successful lookups of its own request, and cells that come only from    *)
(* its own lookups.  Nothing is shared between the requests, but the count *)
(* includes the request's own lookups that were answered with the JSON     *)
(* body null and then failed (C5).                                         *)
(***************************************************************************)
C18_ConcurrentRequestsApart ==
    \A r \in RequestIds :
        (Done(r) /\ reqs[r].alongside # {}) =>
            /\ reqs[r].reply.totalRequests = Cardinality(Succeeded(r))
            /\ \A j \in 1..Len(reqs[r].reply.data) :
                  \E i \in Succeeded(r) :
                      reqs[r].reply.data[j] = reqs[r].results[i].cell

\* The cells on screen at the coordinate of the latest updatePixel.
ShownAtEdit ==
    {j \in 1..Len(client.colors) :
        /\ Num(client.colors[j].x) = client.args.x
        /\ Num(client.colors[j].y) = client.args.y}

(***************************************************************************)
(* C19.  As claimed: when an updatePixel was issued while a fetchColors    *)
(* (mode "locally") was in flight and both requests have completed, the    *)
(* color and the team shown for the edited cell are those of the Edit      *)
(* Store entry of that coordinate.  A fetch response computed before the   *)
(* edit and resolved after the edit's repaint puts the older color back.   *)
(***************************************************************************)
C19_ClientViewConsistent ==
    (client.during /\ client.ok /\ client.fetch = "none" /\ client.update = "none")
        => \A j \in ShownAtEdit :
              LET shown == client.colors[j]
                  key == CacheKey(client.args.x, client.args.y)
              IN  /\ key \in DOMAIN localPixelCache
                  /\ "teamId" \in DOMAIN shown
                  /\ shown.teamId = localPixelCache[key].teamId
                  /\ Rgb(shown.Red, shown.Green, shown.Blue)
                        = Rgb(localPixelCache[key].Red, localPixelCache[key].Green,
                              localPixelCache[key].Blue)

====
